---- MODULE Spec2Model ----
(***************************************************************************)
(* A model of qr_to_pos: the Camera capture loop and its single-slot frame *)
(* exchange (qr_to_pos/camera.py), the QRCodeProcessor consumer loop       *)
(* (qr_to_pos/processor.py) and the DetectionServer message handler        *)
(* (qr_to_pos/server.py).                                                  *)
(*                                                                         *)
(* The repository ships three client programs of these classes; the        *)
(* variable deployment says which one runs: a Camera alone (main.py,       *)
(* menu 2), a Camera with a QRCodeProcessor on it (main.py, menu 1), or a  *)
(* DetectionServer (server.py main).                                       *)
(***************************************************************************)
EXTENDS Integers, Sequences, FiniteSets, TLC

\* ------------------------------------------------------------------ bounds

\* Frames the sensor hands out in one run.
MaxFrames == 2
\* Messages the clients of one DetectionServer send in one run.
MaxMessages == 2
\* Subscribers registered on one Camera or QRCodeProcessor.
MaxCallbacks == 2
\* Loop threads one Camera (one QRCodeProcessor) spawns in one run: the
\* start() calls that find it Stopped.
MaxStarts == 2

\* ------------------------------------------------------------ Python values

\* Optional[T]: None is the empty sequence, a value x is <<x>>.
None == << >>
Some(x) == <<x>>

\* int(x) of a float, floats being held in tenths: truncation toward zero.
int(x) == IF x >= 0 THEN x \div 10 ELSE -((-x) \div 10)

\* dict.get(key, default) for a key held as an Optional.
get(field, default) == IF field = None THEN default ELSE field[1]

\* ------------------------------------------------------- the collaborators

\* The images the clients send and the sensor delivers.
Images == {"blank", "one_qr", "two_qr", "glare"}

\* Height and width of every image (gray.shape).
ImageHeight == 120
ImageWidth == 160

\* The symbols printed in an image: where each lies (whole pixels) and the
\* text zbar reads from it ("" for a symbol zbar cannot read).
Symbols(image) ==
    CASE image = "one_qr" -> << [x1 |-> 13, y1 |-> 21, x2 |-> 60, y2 |-> 69, text |-> "alpha"] >>
      [] image = "two_qr" -> << [x1 |-> 2, y1 |-> 3, x2 |-> 40, y2 |-> 41, text |-> "beta"],
                                [x1 |-> 90, y1 |-> 50, x2 |-> 159, y2 |-> 118, text |-> ""] >>
      [] OTHER -> << >>

\* qrdet's QRDetector.detect raises on this image (any exception of the model).
DetectorRaises(image) == image = "glare"

\* QRDetector.detect(image=..., is_bgr=True): the regions found, in the
\* detector's order; coordinates are floats (tenths), 'confidence' in
\* hundredths and absent from the second region of "two_qr".
QRDetector_detect(image) ==
    CASE image = "one_qr" ->
           << [bbox_xyxy |-> <<127, 208, 609, 695>>, confidence |-> Some(87), data |-> None] >>
      [] image = "two_qr" ->
           << [bbox_xyxy |-> <<19, 26, 403, 418>>, confidence |-> Some(93), data |-> None],
              [bbox_xyxy |-> <<897, 495, 1599, 1187>>, confidence |-> None, data |-> None] >>
      [] OTHER -> << >>

\* pyzbar.decode(crop): the texts of the readable symbols of the image that lie
\* wholly inside the crop rows top..bottom-1 and columns left..right-1.
pyzbar_decode(image, top, bottom, left, right) ==
    LET syms == Symbols(image)
        inside(s) == /\ s.text # ""
                     /\ left <= s.x1 /\ s.x2 < right
                     /\ top <= s.y1 /\ s.y2 < bottom
    IN  SelectSeq(syms, inside)

Max(a, b) == IF a >= b THEN a ELSE b
Min(a, b) == IF a <= b THEN a ELSE b

\* ---------------------------------------------------------- DetectionServer

\* server.py:45, the padding of the crop handed to pyzbar.
pad == 10
\* server.py:57, the confidence of a region whose dict has none (1.0).
DefaultConfidence == 100

\* A QRCode that passes the confidence of the region on as it is, None when
\* the region has none.
ServerQRCode_without_default(image, detection) ==
    [data |-> get(detection.data, ""),
     bbox |-> Some(<<int(detection.bbox_xyxy[1]), int(detection.bbox_xyxy[2]),
                     int(detection.bbox_xyxy[3]), int(detection.bbox_xyxy[4])>>),
     confidence |-> detection.confidence,
     decoded |-> None]

\* One QRCode built from one region of the detector (server.py:40-60).
ServerQRCode(image, detection) ==
    LET x1 == int(detection.bbox_xyxy[1])
        y1 == int(detection.bbox_xyxy[2])
        x2 == int(detection.bbox_xyxy[3])
        y2 == int(detection.bbox_xyxy[4])
        results == pyzbar_decode(image,
                                 Max(0, y1 - pad), Min(ImageHeight, y2 + pad),
                                 Max(0, x1 - pad), Min(ImageWidth, x2 + pad))
        decoded == IF results # << >> THEN Some(results[1].text) ELSE None
    IN  [data |-> get(detection.data, ""),
         bbox |-> Some(<<x1, y1, x2, y2>>),
         confidence |-> Some(get(detection.confidence, DefaultConfidence)),
         decoded |-> decoded]

\* A detect that keeps only the regions whose crop the decoder could read.
DetectionServer_detect_decoded_only(image) ==
    LET detections == QRDetector_detect(image)
        all == [i \in 1..Len(detections) |-> ServerQRCode(image, detections[i])]
        readable(qr) == qr.decoded # None
    IN  SelectSeq(all, readable)

\* DetectionServer.detect(image): the QRCode list (the caller has checked that
\* the detector does not raise on this image).
DetectionServer_detect(image) ==
    LET detections == QRDetector_detect(image)
    IN  [i \in 1..Len(detections) |-> ServerQRCode(image, detections[i])]

\* The byte strings a message can carry: an encoded image, or bytes that
\* cv2.imdecode cannot decode.
ImageBytes(image) == [kind |-> "image", image |-> image]
Garbage == [kind |-> "garbage", image |-> "blank"]

\* DetectionServer.decode_image(raw): [ok, image]; not ok is the ValueError
\* "Failed to decode image".
decode_image(raw) ==
    IF raw.kind = "image" THEN [ok |-> TRUE, image |-> raw.image]
                          ELSE [ok |-> FALSE, image |-> "blank"]

\* A base64 text: the bytes it encodes, or a text that is not base64 at all.
B64(raw) == [valid |-> TRUE, of |-> raw]
NotBase64 == [valid |-> FALSE, of |-> Garbage]

\* base64.b64decode(text): [ok, bytes]; not ok is binascii.Error, a ValueError.
b64decode(text) == [ok |-> text.valid, bytes |-> text.of]

\* The text messages: what json.loads makes of the text (syntax: "malformed"
\* when it raises JSONDecodeError, else the type of the JSON value) and, for an
\* object, its "image" member ("absent", "null", "string" or "number").
JsonText(syntax, image, b64) == [syntax |-> syntax, image |-> image, b64 |-> b64]

BytesMessage(raw) ==
    [type |-> "bytes", raw |-> raw, text |-> JsonText("malformed", "absent", NotBase64)]
TextMessage(text) == [type |-> "str", raw |-> Garbage, text |-> text]

\* The messages the clients send.
Messages ==
    {BytesMessage(ImageBytes(i)) : i \in Images} \cup
    {BytesMessage(Garbage)} \cup
    {TextMessage(JsonText("object", "string", B64(ImageBytes(i)))) : i \in {"one_qr", "glare"}} \cup
    {TextMessage(JsonText("object", "string", B64(Garbage))),
     TextMessage(JsonText("object", "string", NotBase64)),
     TextMessage(JsonText("object", "number", NotBase64)),
     TextMessage(JsonText("object", "absent", NotBase64)),
     TextMessage(JsonText("object", "null", NotBase64)),
     TextMessage(JsonText("array", "absent", NotBase64)),
     TextMessage(JsonText("null", "absent", NotBase64)),
     TextMessage(JsonText("malformed", "absent", NotBase64)),
     [type |-> "other", raw |-> Garbage, text |-> JsonText("malformed", "absent", NotBase64)]}

\* The responses: a JSON object, held as the set of its keys and their values.
ErrorResponse(text) ==
    [keys |-> {"error"}, error |-> text, detections |-> << >>, count |-> 0]
DetectionResponse(qr_codes) ==
    [keys |-> {"detections", "count", "processing_time"}, error |-> "",
     detections |-> qr_codes, count |-> Len(qr_codes)]

\* What the try block of one iteration of handle does with a message
\* (server.py:72-99): it sends a response (sent), or raises an exception of
\* class exc with text str(e).
Sent(response) == [sent |-> TRUE, response |-> response, exc |-> "", str |-> ""]
Raised(exc, str) == [sent |-> FALSE, response |-> ErrorResponse(""), exc |-> exc, str |-> str]

\* server.py:90-99, from an image on.
DetectAndRespond(image) ==
    IF DetectorRaises(image)
    THEN Raised("RuntimeError", "detector failed")
    ELSE Sent(DetectionResponse(DetectionServer_detect(image)))

\* server.py:74 and 83: decode_image, then detection.
DecodeAndRespond(raw) ==
    LET decoded == decode_image(raw)
    IN  IF decoded.ok THEN DetectAndRespond(decoded.image)
                      ELSE Raised("ValueError", "Failed to decode image")

\* server.py:73-99.
TryBody(message) ==
    CASE message.type = "bytes" -> DecodeAndRespond(message.raw)
      [] message.type = "str" ->
           LET text == message.text IN
           CASE text.syntax = "malformed" -> Raised("JSONDecodeError", "Expecting value")
             [] text.syntax # "malformed" /\ text.syntax # "object" ->
                  \* payload.get on a list or on None
                  Raised("AttributeError",
                         IF text.syntax = "array"
                         THEN "'list' object has no attribute 'get'"
                         ELSE "'NoneType' object has no attribute 'get'")
             [] text.syntax = "object" /\ text.image \in {"absent", "null"} ->
                  Sent(ErrorResponse("Missing 'image' field"))
             [] text.syntax = "object" /\ text.image = "number" ->
                  Raised("TypeError", "argument should be a bytes-like object or ASCII string")
             [] OTHER ->
                  LET raw == b64decode(text.b64)
                  IN  IF raw.ok THEN DecodeAndRespond(raw.bytes)
                                ELSE Raised("binascii.Error", "Incorrect padding")
      [] OTHER -> Sent(ErrorResponse("Unsupported message type"))

\* The classes an exception class is an instance of (Python's hierarchy).
IsInstance(exc, class) ==
    \/ exc = class
    \/ class = "Exception"
    \/ class = "ValueError" /\ exc \in {"JSONDecodeError", "binascii.Error"}

\* An iteration without the last `except Exception` clause: an exception that
\* is not a ValueError leaves the handler, and nothing is sent.
handle_message_without_catch_all(message) ==
    LET try == TryBody(message) IN
    CASE try.sent -> [responses |-> <<try.response>>, continues |-> TRUE]
      [] ~try.sent /\ IsInstance(try.exc, "JSONDecodeError") ->
           [responses |-> <<ErrorResponse("Invalid JSON")>>, continues |-> TRUE]
      [] ~try.sent /\ ~IsInstance(try.exc, "JSONDecodeError")
                   /\ IsInstance(try.exc, "ValueError") ->
           [responses |-> <<ErrorResponse(try.str)>>, continues |-> TRUE]
      [] OTHER -> [responses |-> << >>, continues |-> FALSE]

\* One iteration of the loop of DetectionServer.handle (server.py:71-106):
\* the responses it sends, and whether the loop goes on to the next message
\* (it does not when an exception leaves the handler).
handle_message(message) ==
    LET try == TryBody(message) IN
    CASE try.sent -> [responses |-> <<try.response>>, continues |-> TRUE]
      [] ~try.sent /\ IsInstance(try.exc, "JSONDecodeError") ->
           [responses |-> <<ErrorResponse("Invalid JSON")>>, continues |-> TRUE]
      [] ~try.sent /\ ~IsInstance(try.exc, "JSONDecodeError")
                   /\ IsInstance(try.exc, "ValueError") ->
           [responses |-> <<ErrorResponse(try.str)>>, continues |-> TRUE]
      [] OTHER ->
           [responses |-> <<ErrorResponse("Processing error: " \o try.str)>>,
            continues |-> TRUE]

\* ------------------------------------------------------------------- state

\* The connections clients hold to one DetectionServer.
Connections == {"c1", "c2"}

\* The threads Camera.start spawns, in the order it spawns them.
CaptureThreads == 1..MaxStarts
\* The threads QRCodeProcessor.start spawns, in the order it spawns them.
ProcessingThreads == 1..MaxStarts

\* What the sensor shows at its n-th capture: an image with no symbol, one
\* with a symbol, or one the detector fails on. With no QRCodeProcessor on the
\* Camera nothing looks into the image, and the scene alternates between two.
SensorImages(d, n) ==
    IF d = "camera" THEN {IF n % 2 = 1 THEN "one_qr" ELSE "blank"}
    ELSE IF d \in {"reentrant", "registrar"} THEN {"one_qr"}
    ELSE {"blank", "one_qr", "glare"}

\* Frame (camera.py:11-15); timestamp is time.time(), here the number of the
\* capture.
Frame(data, timestamp, index) == [data |-> data, timestamp |-> timestamp, index |-> index]
NoFrame == Frame("blank", 0, 0)

\* The subscribers: one that returns and one that raises on every invocation.
CallbackKinds == {"returns", "raises"}
\* The subscribers of a client whose callbacks register: one that returns, and
\* one that calls on_frame or on_result from inside its own invocation.
Subscribers(d) ==
    CASE d = "reentrant" -> {"returns", "registers"}
      [] d = "registrar" -> {"returns"}
      [] OTHER -> CallbackKinds

VARIABLES
    deployment,     \* the client program: "camera", "pipeline", "reentrant", "registrar", "server" or "cli"
    \* InteractiveCLI
    cli_pc,             \* where the main thread of the CLI is
    cli_then,           \* where the cleanup() in progress returns to
    cli_camera,         \* InteractiveCLI.camera: 0 (None) or a Camera it made
    cli_processor,      \* InteractiveCLI.processor: 0 (None) or a QRCodeProcessor it made
    cli_cameras,        \* per Camera the CLI made: _running, start() returned, stop() was called
    cli_processors,     \* per QRCodeProcessor the CLI made: the same
    cli_made,           \* how many Cameras and QRCodeProcessors the CLI has made
    \* DetectionServer
    received,       \* per connection: the messages the client has sent, in order
    handled,        \* per connection: how many of them handle has taken
    outbox,         \* per connection: the responses websocket.send was given, in order
    alive,          \* per connection: the handle coroutine is still in its loop
    detecting,      \* the connections whose handler is inside self.detect
    \* Camera
    camera_running,                 \* Camera._running
    camera_frame_index,             \* Camera._frame_index
    camera_latest_frame,            \* Camera._latest_frame, an Optional Frame
    camera_capture_thread,          \* Camera._capture_thread: 0 (None) or the thread last spawned
    camera_callbacks,               \* Camera._callbacks
    camera_visualization_running,   \* Camera._visualization_running
    pipeline_started,               \* the rs.pipeline is started
    capture,        \* per capture thread: pc, the locals of _capture_loop, and (kept for a Camera alone) whether its last wait failed
    clock,          \* the captures the sensor has delivered
    viewer_pc,      \* the thread in Camera.start_visualization
    \* QRCodeProcessor
    processor_running,                  \* QRCodeProcessor._running
    processor_last_processed_index,     \* QRCodeProcessor._last_processed_index
    processor_processing_thread,        \* QRCodeProcessor._processing_thread: 0 (None) or the thread last spawned
    processor_callbacks,                \* QRCodeProcessor._callbacks
    process,        \* per processing thread: pc and the locals of _process_loop
    detect_log,     \* the frames handed to the detector, in the order of the calls
    result_log,     \* per subscriber of the QRCodeProcessor: the results it was invoked with
    \* the callers and what they observed
    caller_pc,      \* where the thread calling start() and stop() is
    event,          \* the API call made by the last step, if it was one
    published,      \* the frames stored in the slot, in the order stored
    frame_log       \* per subscriber of the Camera: the frames it was invoked with

server_vars == <<received, handled, outbox, alive, detecting>>
camera_vars == <<camera_running, camera_frame_index, camera_latest_frame,
                 camera_capture_thread, camera_callbacks,
                 camera_visualization_running, pipeline_started, capture, clock,
                 viewer_pc, published, frame_log>>
processor_vars == <<processor_running, processor_last_processed_index,
                    processor_processing_thread, processor_callbacks, process,
                    detect_log, result_log>>
caller_vars == <<caller_pc, event>>
cli_vars == <<cli_pc, cli_then, cli_camera, cli_processor, cli_cameras, cli_processors,
              cli_made>>
vars == <<deployment, cli_vars, server_vars, camera_vars, processor_vars, caller_vars>>

\* The lifecycle of a Camera or QRCodeProcessor the CLI has made, as the CLI
\* drives it: _running, whether a start() has returned, whether stop() was
\* called since.
NotStarted == [running |-> FALSE, started |-> FALSE, stopped |-> FALSE]

\* An API call as the caller saw it: whether it raised, whether it joined a
\* loop thread and whether it called the sensor's stop.
Call(op, raised, joined, sensor_stop) ==
    [op |-> op, raised |-> raised, joined |-> joined, sensor_stop |-> sensor_stop,
     value |-> None, after |-> 0]
\* A call of get_latest_frame(): the value it returned, and how many frames
\* had been stored in the slot when it returned.
Returned(op, value, after) ==
    [op |-> op, raised |-> FALSE, joined |-> FALSE, sensor_stop |-> FALSE,
     value |-> value, after |-> after]
NoCall == Call("", FALSE, FALSE, FALSE)

ServerInit ==
    /\ received = [c \in Connections |-> << >>]
    /\ handled = [c \in Connections |-> 0]
    /\ outbox = [c \in Connections |-> << >>]
    /\ alive = [c \in Connections |-> TRUE]
    /\ detecting = {}

\* Camera.__init__ (camera.py:50-60).
CameraInit ==
    /\ camera_running = FALSE
    /\ camera_frame_index = 0
    /\ camera_latest_frame = None
    /\ camera_capture_thread = 0
    /\ camera_callbacks = << >>
    /\ camera_visualization_running = FALSE
    /\ pipeline_started = FALSE
    /\ capture = [t \in CaptureThreads |-> [pc |-> "unborn", frame |-> NoFrame, tmp |-> 0, failed |-> FALSE]]
    /\ clock = 0
    /\ viewer_pc = "idle"
    /\ published = << >>
    /\ frame_log = [k \in 1..MaxCallbacks |-> << >>]

\* QRCodeProcessor.__init__ (processor.py:39-46).
ProcessorInit ==
    /\ processor_running = FALSE
    /\ processor_last_processed_index = -1
    /\ processor_processing_thread = 0
    /\ processor_callbacks = << >>
    /\ process = [t \in ProcessingThreads |-> [pc |-> "unborn", frame |-> NoFrame, result |-> << >>]]
    /\ detect_log = << >>
    /\ result_log = [k \in 1..MaxCallbacks |-> << >>]

\* InteractiveCLI.__init__ (main.py:14-22).
CLIInit ==
    /\ cli_pc = "menu"
    /\ cli_then = ""
    /\ cli_camera = 0
    /\ cli_processor = 0
    /\ cli_cameras = [i \in 1..MaxStarts |-> NotStarted]
    /\ cli_processors = [i \in 1..MaxStarts |-> NotStarted]
    /\ cli_made = [camera |-> 0, processor |-> 0]

Init ==
    /\ deployment \in {"camera", "pipeline", "reentrant", "registrar", "server", "cli"}
    /\ CLIInit
    /\ ServerInit
    /\ CameraInit
    /\ ProcessorInit
    /\ caller_pc = "idle"
    /\ event = NoCall

\* -------------------------------------------------- DetectionServer actions

SentSoFar == Len(received["c1"]) + Len(received["c2"])

\* A client sends one message on its connection.
Client_send(c, message) ==
    /\ deployment = "server"
    /\ SentSoFar < MaxMessages
    /\ received' = [received EXCEPT ![c] = Append(@, message)]
    /\ UNCHANGED <<deployment, cli_vars, handled, outbox, alive, detecting, camera_vars, processor_vars, caller_vars>>

\* A handler that keeps a count of the messages the server has handled and
\* adds it to the count of the responses it sends.
DetectionServer_handle_numbered(c) ==
    /\ deployment = "server"
    /\ alive[c]
    /\ handled[c] < Len(received[c])
    /\ LET step == handle_message(received[c][handled[c] + 1])
           seen == handled["c1"] + handled["c2"]
       IN  /\ outbox' = [outbox EXCEPT ![c] = @ \o [k \in 1..Len(step.responses) |->
                             [step.responses[k] EXCEPT !.count = @ + seen]]]
           /\ alive' = [alive EXCEPT ![c] = step.continues]
    /\ handled' = [handled EXCEPT ![c] = @ + 1]
    /\ UNCHANGED <<deployment, cli_vars, received, detecting, camera_vars, processor_vars, caller_vars>>

\* A handler that awaits the detection in a worker thread: the coroutine
\* gives up the event loop while self.detect runs, and takes the result in a
\* later step.
DetectionServer_handle_in_executor(c) ==
    /\ deployment = "server"
    /\ alive[c]
    /\ handled[c] < Len(received[c])
    /\ LET step == handle_message(received[c][handled[c] + 1])
       IN  IF c \notin detecting /\ step.responses[1].keys # {"error"}
           THEN /\ detecting' = detecting \cup {c}
                /\ UNCHANGED <<outbox, alive, handled>>
           ELSE /\ detecting' = detecting \ {c}
                /\ outbox' = [outbox EXCEPT ![c] = @ \o step.responses]
                /\ alive' = [alive EXCEPT ![c] = step.continues]
                /\ handled' = [handled EXCEPT ![c] = @ + 1]
    /\ UNCHANGED <<deployment, cli_vars, received, camera_vars, processor_vars, caller_vars>>

\* DetectionServer.handle takes the next message of a connection: one
\* iteration of `async for message in websocket`, up to its send. The
\* iteration runs on the event loop without a switch to another coroutine:
\* self.detect (server.py:91) is a plain call, entered and left in the step,
\* so the handler is not in detecting before or after it.
DetectionServer_handle(c) ==
    /\ deployment = "server"
    /\ alive[c]
    /\ handled[c] < Len(received[c])
    /\ LET step == handle_message(received[c][handled[c] + 1])
       IN  /\ outbox' = [outbox EXCEPT ![c] = @ \o step.responses]
           /\ alive' = [alive EXCEPT ![c] = step.continues]
    /\ handled' = [handled EXCEPT ![c] = @ + 1]
    /\ UNCHANGED <<deployment, cli_vars, received, detecting, camera_vars, processor_vars, caller_vars>>

\* ----------------------------------------------------------- Camera actions

\* A start() that sets _running before it opens the pipeline: when the
\* pipeline raises, the flag stays set.
Camera_start_running_first ==
    /\ deployment \in {"camera", "pipeline", "reentrant", "registrar"}
    /\ caller_pc = "idle"
    /\ IF camera_running
       THEN /\ event' = Call("Camera.start", FALSE, FALSE, FALSE)
            /\ UNCHANGED <<camera_vars, caller_pc>>
       ELSE \/ /\ event' = Call("Camera.start", TRUE, FALSE, FALSE)
               /\ camera_running' = TRUE
               /\ UNCHANGED <<camera_frame_index, camera_latest_frame, camera_capture_thread,
                              camera_callbacks, camera_visualization_running, pipeline_started,
                              capture, clock, viewer_pc, published, frame_log, caller_pc>>
            \/ /\ ~pipeline_started
               /\ camera_capture_thread < MaxStarts
               /\ pipeline_started' = TRUE
               /\ camera_running' = TRUE
               /\ camera_capture_thread' = camera_capture_thread + 1
               /\ capture' = [capture EXCEPT ![camera_capture_thread + 1].pc = "while"]
               /\ event' = Call("Camera.start", FALSE, FALSE, FALSE)
               /\ UNCHANGED <<camera_frame_index, camera_latest_frame, camera_callbacks, camera_visualization_running, clock,
                              viewer_pc, published, frame_log, caller_pc>>
    /\ UNCHANGED <<deployment, cli_vars, server_vars, processor_vars>>

\* Camera.start() (camera.py:62-70). pipeline.start raises when the pipeline
\* is started already, and may raise when it is not (no device).
Camera_start ==
    /\ deployment \in {"camera", "pipeline", "reentrant", "registrar"}
    /\ caller_pc = "idle"
    /\ IF camera_running
       THEN /\ event' = Call("Camera.start", FALSE, FALSE, FALSE)
            /\ UNCHANGED <<camera_vars, caller_pc>>
       ELSE \/ /\ event' = Call("Camera.start", TRUE, FALSE, FALSE)
               /\ UNCHANGED <<camera_vars, caller_pc>>
            \/ /\ ~pipeline_started
               /\ camera_capture_thread < MaxStarts
               /\ pipeline_started' = TRUE
               /\ camera_running' = TRUE
               /\ camera_capture_thread' = camera_capture_thread + 1
               /\ capture' = [capture EXCEPT ![camera_capture_thread + 1].pc = "while"]
               /\ event' = Call("Camera.start", FALSE, FALSE, FALSE)
               /\ UNCHANGED <<camera_frame_index, camera_latest_frame, camera_callbacks, camera_visualization_running, clock,
                              viewer_pc, published, frame_log, caller_pc>>
    /\ UNCHANGED <<deployment, cli_vars, server_vars, processor_vars>>

\* Camera.stop_visualization() (camera.py:170-176): the flag after it.
stop_visualization == FALSE

\* A stop() without the test of _running: it clears the flag and goes on to
\* the join whatever the state.
Camera_stop_unguarded ==
    /\ deployment = "camera"
    /\ caller_pc = "idle"
    /\ camera_visualization_running' = stop_visualization
    /\ camera_running' = FALSE
    /\ caller_pc' = "Camera.stop:join"
    /\ event' = Call("Camera.stop", FALSE, camera_capture_thread # 0, FALSE)
    /\ UNCHANGED <<deployment, cli_vars, server_vars, processor_vars, camera_frame_index, camera_latest_frame,
                   camera_capture_thread, camera_callbacks,
                   pipeline_started, capture, clock, viewer_pc, published, frame_log>>

\* A stop() that closes the sensor before it joins the capture thread.
Camera_stop_closing_first ==
    /\ deployment = "camera"
    /\ caller_pc = "idle"
    /\ camera_visualization_running' = stop_visualization
    /\ IF ~camera_running
       THEN /\ event' = Call("Camera.stop", FALSE, FALSE, FALSE)
            /\ UNCHANGED <<camera_running, caller_pc, pipeline_started>>
       ELSE /\ camera_running' = FALSE
            /\ pipeline_started' = FALSE
            /\ caller_pc' = "Camera.stop:join"
            /\ event' = Call("Camera.stop", FALSE, camera_capture_thread # 0, TRUE)
    /\ UNCHANGED <<deployment, cli_vars, server_vars, processor_vars, camera_frame_index, camera_latest_frame,
                   camera_capture_thread, camera_callbacks,
                   capture, clock, viewer_pc, published, frame_log>>

\* Camera.stop(timeout), up to the join (camera.py:72-80).
Camera_stop ==
    /\ deployment = "camera"
    /\ caller_pc = "idle"
    /\ camera_visualization_running' = stop_visualization
    /\ IF ~camera_running
       THEN /\ event' = Call("Camera.stop", FALSE, FALSE, FALSE)
            /\ UNCHANGED <<camera_running, caller_pc>>
       ELSE /\ camera_running' = FALSE
            /\ caller_pc' = "Camera.stop:join"
            /\ event' = Call("Camera.stop", FALSE, camera_capture_thread # 0, FALSE)
    /\ UNCHANGED <<deployment, cli_vars, server_vars, processor_vars, camera_frame_index, camera_latest_frame,
                   camera_capture_thread, camera_callbacks,
                   pipeline_started, capture, clock, viewer_pc, published, frame_log>>

\* Camera.stop(timeout), from the return of the join on (camera.py:80-81):
\* the join returns when the capture thread has ended or when the timeout has
\* passed, whichever is first; then the pipeline is stopped.
Camera_stop_joined ==
    /\ caller_pc = "Camera.stop:join"
    /\ pipeline_started' = FALSE
    /\ caller_pc' = "idle"
    /\ event' = Call("Camera.stop:return", ~pipeline_started, TRUE, TRUE)
    /\ UNCHANGED <<deployment, cli_vars, server_vars, processor_vars, camera_running, camera_frame_index,
                   camera_latest_frame, camera_capture_thread, camera_callbacks, camera_visualization_running, capture, clock,
                   viewer_pc, published, frame_log>>

\* Camera.get_latest_frame() (camera.py:83-86): the value returned.
get_latest_frame == camera_latest_frame

\* A thread calls Camera.get_latest_frame().
Camera_get_latest_frame ==
    /\ deployment = "camera"
    /\ event' = Returned("Camera.get_latest_frame", get_latest_frame, Len(published))
    /\ UNCHANGED <<deployment, cli_vars, server_vars, processor_vars, camera_vars, caller_pc>>

\* _callback_lock of the Camera is held: a capture thread is inside its pass,
\* about to leave the `with` block or blocked for good in a subscriber.
CameraLockHeld == \E t \in CaptureThreads : capture[t].pc \in {"unlock", "deadlock"}
\* _callback_lock of the QRCodeProcessor is held.
ProcessorLockHeld == \E t \in ProcessingThreads : process[t].pc \in {"unlock", "deadlock"}

\* A second thread calls Camera.on_frame(callback) and waits for
\* _callback_lock (camera.py:90).
Camera_on_frame_called ==
    /\ deployment = "registrar"
    /\ caller_pc = "idle"
    /\ Len(camera_callbacks) < MaxCallbacks
    /\ caller_pc' = "Camera.on_frame:acquire"
    /\ event' = NoCall
    /\ UNCHANGED <<deployment, cli_vars, server_vars, processor_vars, camera_vars>>

\* Camera.on_frame(callback) (camera.py:88-91), under the callback lock.
Camera_on_frame(callback) ==
    /\ deployment \in {"camera", "reentrant", "registrar"}
    /\ ~CameraLockHeld
    /\ IF deployment = "registrar"
       THEN caller_pc = "Camera.on_frame:acquire" /\ caller_pc' = "idle"
       ELSE UNCHANGED caller_pc
    /\ Len(camera_callbacks) < MaxCallbacks
    /\ camera_callbacks' = Append(camera_callbacks, callback)
    /\ event' = Call("Camera.on_frame", FALSE, FALSE, FALSE)
    /\ UNCHANGED <<deployment, cli_vars, server_vars, processor_vars, camera_running,
                   camera_frame_index, camera_latest_frame, camera_capture_thread, camera_visualization_running, pipeline_started,
                   capture, clock, viewer_pc, published, frame_log>>

\* What a step of a loop thread leaves alone.
CaptureFrame == <<deployment, cli_vars, server_vars, processor_vars, caller_pc, camera_running,
                  camera_capture_thread, camera_visualization_running,
                  pipeline_started, viewer_pc>>

\* `while self._running` (camera.py:98).
Capture_while(t) ==
    /\ capture[t].pc = "while"
    /\ capture' = [capture EXCEPT ![t].pc = IF camera_running THEN "wait" ELSE "ended",
                                  ![t].failed = camera_running /\ capture[t].failed]
    /\ event' = NoCall
    /\ UNCHANGED <<CaptureFrame, camera_frame_index, camera_latest_frame, camera_callbacks, clock, published, frame_log>>

\* The wait fails (camera.py:101-105 and 138-141): wait_for_frames raises, on
\* a timeout or because the pipeline is stopped, or the frame set has no color
\* frame.
Capture_wait_fails(t) ==
    /\ capture[t].pc = "wait"
    /\ capture' = [capture EXCEPT ![t].pc = "while", ![t].failed = (deployment = "camera")]
    /\ event' = NoCall
    /\ UNCHANGED <<CaptureFrame, camera_frame_index, camera_latest_frame, camera_callbacks, clock, published, frame_log>>

\* The wait returns a color frame and the Frame is built (camera.py:101-123).
Capture_frame(t, data) ==
    /\ capture[t].pc = "wait"
    /\ pipeline_started
    /\ clock < MaxFrames
    /\ clock' = clock + 1
    /\ capture' = [capture EXCEPT ![t].pc = "index", ![t].failed = FALSE,
                                  ![t].frame = Frame(data, clock + 1, camera_frame_index)]
    /\ event' = NoCall
    /\ UNCHANGED <<CaptureFrame, camera_frame_index, camera_latest_frame, camera_callbacks, published, frame_log>>

\* `self._frame_index += 1` (camera.py:124) reads the attribute ...
Capture_index_read(t) ==
    /\ capture[t].pc = "index"
    /\ capture' = [capture EXCEPT ![t].pc = "index+1", ![t].tmp = camera_frame_index]
    /\ event' = NoCall
    /\ UNCHANGED <<CaptureFrame, camera_frame_index, camera_latest_frame, camera_callbacks, clock, published, frame_log>>

\* ... and stores the sum.
Capture_index_write(t) ==
    /\ capture[t].pc = "index+1"
    /\ camera_frame_index' = capture[t].tmp + 1
    /\ capture' = [capture EXCEPT ![t].pc = "publish", ![t].tmp = 0]
    /\ event' = NoCall
    /\ UNCHANGED <<CaptureFrame, camera_latest_frame, camera_callbacks, clock, published, frame_log>>

\* A slot written field by field into the Frame it holds, the index first.
publish_in_place(frame) ==
    IF camera_latest_frame = None
    THEN Some(frame)
    ELSE Some([camera_latest_frame[1] EXCEPT !.index = frame.index])

\* The slot after `self._latest_frame = frame` under the frame lock
\* (camera.py:127-128).
publish(frame) == Some(frame)

Capture_publish(t) ==
    /\ capture[t].pc = "publish"
    /\ camera_latest_frame' = publish(capture[t].frame)
    /\ published' = Append(published, capture[t].frame)
    /\ capture' = [capture EXCEPT ![t].pc = "callbacks"]
    /\ event' = NoCall
    /\ UNCHANGED <<CaptureFrame, camera_frame_index, camera_callbacks, clock, frame_log>>

\* A delivery pass that the first raising subscriber ends: the subscribers up
\* to and including it are invoked, the ones after it are not.
invoked_until_raise(callbacks) ==
    {k \in 1..Len(callbacks) : \A j \in 1..(k - 1) : callbacks[j] # "raises"}

\* A pass that invokes the subscriber registered first and no other.
invoked_first_only(callbacks) == {k \in 1..Len(callbacks) : k = 1}

\* Whether a pass over the subscribers blocks: it does in a subscriber that
\* registers, because on_frame and on_result take _callback_lock
\* (camera.py:90, processor.py:49), a threading.Lock, which the pass holds
\* (camera.py:131, processor.py:102).
blocks(callbacks) == \E k \in 1..Len(callbacks) : callbacks[k] = "registers"

\* The subscribers one pass over camera_callbacks invokes (camera.py:132-136,
\* processor.py:103-107): an exception of a subscriber is caught inside the
\* loop, which goes on to the next one, so the pass invokes them all, up to
\* one in which it blocks.
invoked(callbacks) ==
    {k \in 1..Len(callbacks) : \A j \in 1..(k - 1) : callbacks[j] # "registers"}

\* The subscribers are invoked with the frame, one after the other, with
\* _callback_lock held from the first to the last (camera.py:131-136); then
\* the iteration is over. The step is one because the lock keeps on_frame out
\* of the pass and a subscriber of the model touches nothing but its own log.
Capture_callbacks(t) ==
    /\ capture[t].pc = "callbacks"
    /\ ~CameraLockHeld
    /\ frame_log' = [k \in 1..MaxCallbacks |->
                        IF k \in invoked(camera_callbacks)
                        THEN Append(frame_log[k], capture[t].frame)
                        ELSE frame_log[k]]
    /\ capture' = CASE blocks(camera_callbacks) -> [capture EXCEPT ![t].pc = "deadlock"]
                     [] ~blocks(camera_callbacks) /\ deployment = "registrar" ->
                          [capture EXCEPT ![t].pc = "unlock"]
                     [] OTHER -> [capture EXCEPT ![t].pc = "while", ![t].frame = NoFrame]
    /\ event' = NoCall
    /\ UNCHANGED <<CaptureFrame, camera_frame_index, camera_latest_frame, camera_callbacks,
                   clock, published>>

\* The end of the `with self._callback_lock` block of the capture loop
\* (camera.py:131-136), a step of its own where a second thread registers:
\* the lock is released and the loop starts over.
Capture_unlock(t) ==
    /\ capture[t].pc = "unlock"
    /\ capture' = [capture EXCEPT ![t].pc = "while", ![t].frame = NoFrame]
    /\ event' = NoCall
    /\ UNCHANGED <<CaptureFrame, camera_frame_index, camera_latest_frame, camera_callbacks,
                   clock, published, frame_log>>

\* Camera.start_visualization(), its checks (camera.py:144-148).
Camera_start_visualization ==
    /\ deployment = "camera"
    /\ viewer_pc = "idle"
    /\ viewer_pc' = IF camera_running /\ ~camera_visualization_running
                    THEN "show" ELSE "idle"
    /\ event' = Call("Camera.start_visualization", ~camera_running, FALSE, FALSE)
    /\ UNCHANGED <<deployment, cli_vars, server_vars, processor_vars, caller_pc, camera_running,
                   camera_frame_index, camera_latest_frame, camera_capture_thread,
                   camera_callbacks, camera_visualization_running,
                   pipeline_started, capture, clock, published, frame_log>>

\* Camera.start_visualization() sets the flag and opens the window
\* (camera.py:150-152).
Viewer_show ==
    /\ viewer_pc = "show"
    /\ viewer_pc' = "loop"
    /\ camera_visualization_running' = TRUE
    /\ event' = NoCall
    /\ UNCHANGED <<deployment, cli_vars, server_vars, processor_vars, caller_pc, camera_running,
                   camera_frame_index, camera_latest_frame, camera_capture_thread,
                   camera_callbacks, pipeline_started, capture,
                   clock, published, frame_log>>

\* The display loop ends (camera.py:155-168): the flag was cleared, the key q
\* was pressed or the window was closed.
Viewer_close ==
    /\ viewer_pc = "loop"
    /\ viewer_pc' = "idle"
    /\ camera_visualization_running' = FALSE
    /\ event' = NoCall
    /\ UNCHANGED <<deployment, cli_vars, server_vars, processor_vars, caller_pc, camera_running,
                   camera_frame_index, camera_latest_frame, camera_capture_thread,
                   camera_callbacks, pipeline_started, capture,
                   clock, published, frame_log>>

\* ------------------------------------------------- QRCodeProcessor actions

\* QRCodeProcessor.start() (processor.py:52-58).
QRCodeProcessor_start ==
    /\ deployment \in {"pipeline", "reentrant", "registrar"}
    /\ caller_pc = "idle"
    /\ IF processor_running
       THEN UNCHANGED processor_vars
       ELSE /\ processor_processing_thread < MaxStarts
            /\ processor_running' = TRUE
            /\ processor_processing_thread' = processor_processing_thread + 1
            /\ process' = [process EXCEPT ![processor_processing_thread + 1].pc = "while"]
            /\ UNCHANGED <<processor_last_processed_index, processor_callbacks,
                           detect_log, result_log>>
    /\ event' = Call("QRCodeProcessor.start", FALSE, FALSE, FALSE)
    /\ UNCHANGED <<deployment, cli_vars, server_vars, camera_vars, caller_pc>>

\* QRCodeProcessor.stop(timeout), up to the join (processor.py:60-66).
QRCodeProcessor_stop ==
    /\ deployment = "pipeline"
    /\ caller_pc = "idle"
    /\ IF ~processor_running
       THEN /\ event' = Call("QRCodeProcessor.stop", FALSE, FALSE, FALSE)
            /\ UNCHANGED <<processor_running, caller_pc>>
       ELSE /\ processor_running' = FALSE
            /\ caller_pc' = "QRCodeProcessor.stop:join"
            /\ event' = Call("QRCodeProcessor.stop", FALSE, processor_processing_thread # 0, FALSE)
    /\ UNCHANGED <<deployment, cli_vars, server_vars, camera_vars, processor_last_processed_index,
                   processor_processing_thread, processor_callbacks, process,
                   detect_log, result_log>>

\* QRCodeProcessor.stop(timeout): the join returns (processor.py:66), because
\* the processing thread has ended or because the timeout has passed.
QRCodeProcessor_stop_joined ==
    /\ caller_pc = "QRCodeProcessor.stop:join"
    /\ caller_pc' = "idle"
    /\ event' = Call("QRCodeProcessor.stop:return", FALSE, TRUE, FALSE)
    /\ UNCHANGED <<deployment, cli_vars, server_vars, camera_vars, processor_vars>>

\* QRCodeProcessor.on_result(callback) (processor.py:48-50).
QRCodeProcessor_on_result_called ==
    /\ deployment = "registrar"
    /\ caller_pc = "idle"
    /\ Len(processor_callbacks) < MaxCallbacks
    /\ caller_pc' = "QRCodeProcessor.on_result:acquire"
    /\ event' = NoCall
    /\ UNCHANGED <<deployment, cli_vars, server_vars, processor_vars, camera_vars>>

\* QRCodeProcessor.on_result(callback) (processor.py:48-50), under the
\* callback lock.
QRCodeProcessor_on_result(callback) ==
    /\ deployment \in {"pipeline", "reentrant", "registrar"}
    /\ ~ProcessorLockHeld
    /\ IF deployment = "registrar"
       THEN caller_pc = "QRCodeProcessor.on_result:acquire" /\ caller_pc' = "idle"
       ELSE UNCHANGED caller_pc
    /\ Len(processor_callbacks) < MaxCallbacks
    /\ processor_callbacks' = Append(processor_callbacks, callback)
    /\ event' = Call("QRCodeProcessor.on_result", FALSE, FALSE, FALSE)
    /\ UNCHANGED <<deployment, cli_vars, server_vars, camera_vars, processor_running,
                   processor_last_processed_index, processor_processing_thread, process,
                   detect_log, result_log>>

\* What a step of a processing thread leaves alone.
ProcessFrame == <<deployment, cli_vars, server_vars, camera_vars, caller_pc, processor_running,
                  processor_processing_thread, processor_callbacks>>

\* `while self._running` (processor.py:69).
Process_while(t) ==
    /\ process[t].pc = "while"
    /\ process' = [process EXCEPT ![t].pc = IF processor_running THEN "read" ELSE "ended"]
    /\ event' = NoCall
    /\ UNCHANGED <<ProcessFrame, processor_last_processed_index, detect_log, result_log>>

\* A loop that also skips the frame whose index follows the last processed
\* one.
skips_the_following(frame, last_processed_index) ==
    frame = None \/ frame[1].index <= last_processed_index + 1

\* Whether the loop skips the frame it read (processor.py:73).
skips(frame, last_processed_index) ==
    frame = None \/ frame[1].index <= last_processed_index

\* The latest frame is read and compared with the last processed index
\* (processor.py:71-75): the loop sleeps and starts over, or hands the frame
\* to process_frame, which calls the detector (processor.py:79, 111).
Process_read(t) ==
    /\ process[t].pc = "read"
    /\ IF skips(get_latest_frame, processor_last_processed_index)
       THEN /\ process' = [process EXCEPT ![t].pc = "while"]
            /\ UNCHANGED detect_log
       ELSE /\ process' = [process EXCEPT ![t].pc = "detect", ![t].frame = get_latest_frame[1]]
            /\ detect_log' = Append(detect_log, get_latest_frame[1])
    /\ event' = NoCall
    /\ UNCHANGED <<ProcessFrame, processor_last_processed_index, result_log>>

\* One QRCode built from one region of the detector (processor.py:119-132).
ProcessorQRCode(detection) ==
    [data |-> get(detection.data, ""),
     bbox |-> Some(<<int(detection.bbox_xyxy[1]), int(detection.bbox_xyxy[2]),
                     int(detection.bbox_xyxy[3]), int(detection.bbox_xyxy[4])>>),
     confidence |-> Some(get(detection.confidence, DefaultConfidence)),
     decoded |-> None]

\* QRCodeProcessor.process_frame(frame) (processor.py:109-139): the QRCode list,
\* or None when the detector finds nothing or raises.
process_frame(frame) ==
    IF DetectorRaises(frame.data)
    THEN None
    ELSE LET detections == QRDetector_detect(frame.data)
         IN  IF detections = << >>
             THEN None
             ELSE Some([i \in 1..Len(detections) |-> ProcessorQRCode(detections[i])])

\* A ProcessingResult that takes frame_index and frame_timestamp from the
\* frame in the slot at the time of the delivery.
ProcessingResult_of_latest_frame(result, frame) ==
    [result |-> result, frame_index |-> get_latest_frame[1].index,
     frame_timestamp |-> get_latest_frame[1].timestamp]

\* ProcessingResult (processor.py:85-90); processing_time, a wall time, is
\* left out.
ProcessingResult(result, frame) ==
    [result |-> result, frame_index |-> frame.index, frame_timestamp |-> frame.timestamp]

\* The last processed index after process_frame has returned for a frame
\* (processor.py:82).
last_processed(frame, result) == frame.index

\* process_frame returns (processor.py:79-84): the index of the frame is
\* stored, and a non-empty result goes on to _emit_result.
Process_detected(t) ==
    /\ process[t].pc = "detect"
    /\ LET result == process_frame(process[t].frame)
       IN  /\ processor_last_processed_index' = last_processed(process[t].frame, result)
           /\ process' = IF result # None /\ Len(result[1]) > 0
                         THEN [process EXCEPT ![t].pc = "emit", ![t].result = result[1]]
                         ELSE [process EXCEPT ![t].pc = "while", ![t].frame = NoFrame]
    /\ event' = NoCall
    /\ UNCHANGED <<ProcessFrame, detect_log, result_log>>

\* QRCodeProcessor._emit_result (processor.py:85-94, 101-107): the subscribers
\* are invoked with the ProcessingResult, one after the other, under
\* _callback_lock; then the loop sleeps and starts over.
Process_emit(t) ==
    /\ process[t].pc = "emit"
    /\ ~ProcessorLockHeld
    /\ result_log' = [k \in 1..MaxCallbacks |->
                         IF k \in invoked(processor_callbacks)
                         THEN Append(result_log[k],
                                     ProcessingResult(process[t].result, process[t].frame))
                         ELSE result_log[k]]
    /\ process' = CASE blocks(processor_callbacks) -> [process EXCEPT ![t].pc = "deadlock"]
                     [] ~blocks(processor_callbacks) /\ deployment = "registrar" ->
                          [process EXCEPT ![t].pc = "unlock"]
                     [] OTHER ->
                          [process EXCEPT ![t].pc = "while", ![t].frame = NoFrame, ![t].result = << >>]
    /\ event' = NoCall
    /\ UNCHANGED <<ProcessFrame, processor_last_processed_index, detect_log>>

\* The end of the `with self._callback_lock` block of _emit_result
\* (processor.py:102-107), a step of its own where a second thread registers.
Process_unlock(t) ==
    /\ process[t].pc = "unlock"
    /\ process' = [process EXCEPT ![t].pc = "while", ![t].frame = NoFrame, ![t].result = << >>]
    /\ event' = NoCall
    /\ UNCHANGED <<ProcessFrame, processor_last_processed_index, detect_log, result_log>>

\* ---------------------------------------------------- InteractiveCLI actions

\* What a step of the CLI leaves alone: the CLI makes its own Cameras and
\* QRCodeProcessors, held in cli_cameras and cli_processors.
CLIFrame == <<deployment, server_vars, camera_vars, processor_vars, caller_vars>>

\* A Camera or QRCodeProcessor after its start() has returned
\* (camera.py:62-70, processor.py:52-58).
Started == [running |-> TRUE, started |-> TRUE, stopped |-> FALSE]
\* A Camera or QRCodeProcessor after its stop() (camera.py:72-81,
\* processor.py:60-66).
Stopped(instance) == [instance EXCEPT !.running = FALSE, !.stopped = TRUE]

\* The QRCodeProcessors after the first half of cleanup() (main.py:32-34).
cleanup_processors ==
    IF cli_processor # 0
    THEN [cli_processors EXCEPT ![cli_processor] = Stopped(@)]
    ELSE cli_processors
\* The Cameras after the second half of cleanup() (main.py:35-37).
cleanup_cameras ==
    IF cli_camera # 0
    THEN [cli_cameras EXCEPT ![cli_camera] = Stopped(@)]
    ELSE cli_cameras

\* cleanup() is entered, to return to `then`: "menu", "exit" (the loop of run
\* is left) or "raise" (the exception goes on to the handler of run,
\* main.py:285-288).
EnterCleanup(then) ==
    /\ cli_pc' = "cleanup:processor"
    /\ cli_then' = then

\* cleanup(), its first half (main.py:32-34).
CLI_cleanup_processor ==
    /\ cli_pc = "cleanup:processor"
    /\ cli_processors' = cleanup_processors
    /\ cli_processor' = 0
    /\ cli_pc' = "cleanup:camera"
    /\ UNCHANGED <<CLIFrame, cli_then, cli_camera, cli_cameras, cli_made>>

\* cleanup(), its second half (main.py:35-37), and the return: to the menu,
\* out of the loop, or into the handler of run, which calls cleanup() again
\* and raises (main.py:285-288).
CLI_cleanup_camera ==
    /\ cli_pc = "cleanup:camera"
    /\ cli_cameras' = cleanup_cameras
    /\ cli_camera' = 0
    /\ CASE cli_then = "menu" -> cli_pc' = "menu" /\ cli_then' = ""
         [] cli_then = "exit" -> cli_pc' = "exited" /\ cli_then' = ""
         [] OTHER -> EnterCleanup("exit")
    /\ UNCHANGED <<CLIFrame, cli_processor, cli_processors, cli_made>>

\* Command 1, start_camera_and_processor (main.py:61): a new Camera.
CLI_command1 ==
    /\ deployment = "cli"
    /\ cli_pc = "menu"
    /\ cli_made.camera < MaxStarts
    /\ cli_made' = [cli_made EXCEPT !.camera = @ + 1]
    /\ cli_camera' = cli_made.camera + 1
    /\ cli_pc' = "1:camera.start"
    /\ UNCHANGED <<CLIFrame, cli_then, cli_processor, cli_cameras, cli_processors>>

\* Command 1, self.camera.start() (main.py:62): it returns, or it raises and
\* the handler calls cleanup() and raises again (main.py:110-113).
CLI_command1_camera_start ==
    /\ cli_pc = "1:camera.start"
    /\ \/ /\ cli_cameras' = [cli_cameras EXCEPT ![cli_camera] = Started]
          /\ cli_pc' = "1:processor"
          /\ UNCHANGED cli_then
       \/ /\ EnterCleanup("raise")
          /\ UNCHANGED cli_cameras
    /\ UNCHANGED <<CLIFrame, cli_camera, cli_processor, cli_processors, cli_made>>

\* Command 1, the QRCodeProcessor is made and has its subscriber
\* (main.py:76-100), or its constructor raises.
CLI_command1_processor ==
    /\ cli_pc = "1:processor"
    /\ \/ /\ cli_made.processor < MaxStarts
          /\ cli_made' = [cli_made EXCEPT !.processor = @ + 1]
          /\ cli_processor' = cli_made.processor + 1
          /\ cli_pc' = "1:processor.start"
          /\ UNCHANGED cli_then
       \/ /\ EnterCleanup("raise")
          /\ UNCHANGED <<cli_made, cli_processor>>
    /\ UNCHANGED <<CLIFrame, cli_camera, cli_cameras, cli_processors>>

\* Command 1, self.processor.start() (main.py:101), and on into
\* _visualization_loop (main.py:108).
CLI_command1_processor_start ==
    /\ cli_pc = "1:processor.start"
    /\ cli_processors' = [cli_processors EXCEPT ![cli_processor] = Started]
    /\ cli_pc' = "1:view"
    /\ UNCHANGED <<CLIFrame, cli_then, cli_camera, cli_processor, cli_cameras, cli_made>>

\* Command 1, _visualization_loop ends (main.py:115-179): it returns, and run
\* calls cleanup() (main.py:252), or it raises.
CLI_command1_view_ends ==
    /\ cli_pc = "1:view"
    /\ \/ EnterCleanup("menu")
       \/ EnterCleanup("raise")
    /\ UNCHANGED <<CLIFrame, cli_camera, cli_processor, cli_cameras, cli_processors, cli_made>>

\* Command 2, start_visualization (main.py:184-187): a new Camera unless
\* there is one running.
CLI_command2 ==
    /\ deployment = "cli"
    /\ cli_pc = "menu"
    /\ IF cli_camera = 0 \/ ~cli_cameras[cli_camera].running
       THEN /\ cli_made.camera < MaxStarts
            /\ cli_made' = [cli_made EXCEPT !.camera = @ + 1]
            /\ cli_camera' = cli_made.camera + 1
            /\ cli_pc' = "2:camera.start"
       ELSE /\ cli_pc' = "2:view"
            /\ UNCHANGED <<cli_made, cli_camera>>
    /\ UNCHANGED <<CLIFrame, cli_then, cli_processor, cli_cameras, cli_processors>>

\* Command 2, self.camera.start() (main.py:188-193): it returns, or it raises,
\* start_visualization returns and run forgets the Camera (main.py:257-258).
CLI_command2_camera_start ==
    /\ cli_pc = "2:camera.start"
    /\ \/ /\ cli_cameras' = [cli_cameras EXCEPT ![cli_camera] = Started]
          /\ cli_pc' = "2:view"
          /\ UNCHANGED cli_camera
       \/ /\ cli_camera' = 0
          /\ cli_pc' = "menu"
          /\ UNCHANGED cli_cameras
    /\ UNCHANGED <<CLIFrame, cli_then, cli_processor, cli_processors, cli_made>>

\* Command 2, camera.start_visualization() returns (main.py:199-202): the
\* Camera is still running and run keeps it (main.py:257).
CLI_command2_view_ends ==
    /\ cli_pc = "2:view"
    /\ cli_pc' = "menu"
    /\ UNCHANGED <<CLIFrame, cli_then, cli_camera, cli_processor, cli_cameras, cli_processors,
                   cli_made>>

\* Command 3, stop_camera with a running Camera (main.py:209-217).
CLI_command3 ==
    /\ deployment = "cli"
    /\ cli_pc = "menu"
    /\ cli_camera # 0
    /\ cli_cameras[cli_camera].running
    /\ cli_pc' = "3:processor"
    /\ UNCHANGED <<CLIFrame, cli_then, cli_camera, cli_processor, cli_cameras, cli_processors,
                   cli_made>>

\* Command 3, the processor is stopped if it runs (main.py:220-223).
CLI_command3_processor ==
    /\ cli_pc = "3:processor"
    /\ IF cli_processor # 0 /\ cli_processors[cli_processor].running
       THEN /\ cli_processors' = cleanup_processors
            /\ cli_processor' = 0
       ELSE UNCHANGED <<cli_processors, cli_processor>>
    /\ cli_pc' = "3:camera"
    /\ UNCHANGED <<CLIFrame, cli_then, cli_camera, cli_cameras, cli_made>>

\* Command 3, the camera is stopped (main.py:226-234).
CLI_command3_camera ==
    /\ cli_pc = "3:camera"
    /\ cli_cameras' = cleanup_cameras
    /\ cli_camera' = 0
    /\ cli_pc' = "menu"
    /\ UNCHANGED <<CLIFrame, cli_then, cli_processor, cli_processors, cli_made>>

\* Command 4, or EOF at the prompt (main.py:261-264, 274-277): cleanup() and
\* out of the loop.
CLI_command4 ==
    /\ deployment = "cli"
    /\ cli_pc = "menu"
    /\ EnterCleanup("exit")
    /\ UNCHANGED <<CLIFrame, cli_camera, cli_processor, cli_cameras, cli_processors, cli_made>>

\* SIGINT or SIGTERM, wherever the main thread is (main.py:24-28): the handler
\* runs cleanup() and sys.exit(0).
CLI_signal_handler ==
    /\ deployment = "cli"
    /\ cli_pc # "exited"
    /\ cli_processors' = cleanup_processors
    /\ cli_cameras' = cleanup_cameras
    /\ cli_processor' = 0
    /\ cli_camera' = 0
    /\ cli_pc' = "exited"
    /\ cli_then' = ""
    /\ UNCHANGED <<CLIFrame, cli_made>>

\* ------------------------------------------------------ the specifications

\* The steps of the capture threads, and Camera.start.
CaptureNext ==
    \/ Camera_start
    \/ \E t \in CaptureThreads :
         \/ Capture_while(t)
         \/ Capture_wait_fails(t)
         \/ \E data \in SensorImages(deployment, clock + 1) : Capture_frame(t, data)
         \/ Capture_index_read(t)
         \/ Capture_index_write(t)
         \/ Capture_publish(t)
         \/ Capture_callbacks(t)

\* The other calls the client of a Camera makes.
CameraCalls ==
    \/ Camera_stop
    \/ Camera_stop_joined
    \/ Camera_get_latest_frame
    \/ \E callback \in Subscribers(deployment) : Camera_on_frame(callback)
    \/ Camera_start_visualization
    \/ Viewer_show
    \/ Viewer_close

\* The calls the client of a QRCodeProcessor makes, and the steps of the
\* processing threads.
ProcessorNext ==
    \/ QRCodeProcessor_start
    \/ QRCodeProcessor_stop
    \/ QRCodeProcessor_stop_joined
    \/ \E callback \in Subscribers(deployment) : QRCodeProcessor_on_result(callback)
    \/ \E t \in ProcessingThreads :
         \/ Process_while(t)
         \/ Process_read(t)
         \/ Process_detected(t)
         \/ Process_emit(t)

ServerNext ==
    \/ \E c \in Connections, message \in Messages : Client_send(c, message)
    \/ \E c \in Connections : DetectionServer_handle(c)

CLINext ==
    \/ CLI_command1
    \/ CLI_command1_camera_start
    \/ CLI_command1_processor
    \/ CLI_command1_processor_start
    \/ CLI_command1_view_ends
    \/ CLI_command2
    \/ CLI_command2_camera_start
    \/ CLI_command2_view_ends
    \/ CLI_command3
    \/ CLI_command3_processor
    \/ CLI_command3_camera
    \/ CLI_command4
    \/ CLI_cleanup_processor
    \/ CLI_cleanup_camera
    \/ CLI_signal_handler

\* The steps that are seen only where a second thread registers subscribers.
RegistrarCalls ==
    \/ Camera_on_frame_called
    \/ QRCodeProcessor_on_result_called
    \/ \E t \in CaptureThreads : Capture_unlock(t)
    \/ \E t \in ProcessingThreads : Process_unlock(t)

Next == CaptureNext \/ CameraCalls \/ ProcessorNext \/ ServerNext \/ CLINext \/ RegistrarCalls

\* Every deployment.
Spec == Init /\ [][Next]_vars

\* A Camera alone.
CameraAlone == Init /\ deployment = "camera"
CameraNext == CaptureNext \/ CameraCalls
SpecCamera == CameraAlone /\ [][CameraNext]_vars

\* A Camera with a QRCodeProcessor on it.
CameraAndProcessor == Init /\ deployment = "pipeline"
PipelineNext == CaptureNext \/ ProcessorNext
SpecPipeline == CameraAndProcessor /\ [][PipelineNext]_vars

\* A DetectionServer.
ServerAlone == Init /\ deployment = "server"
SpecServer == ServerAlone /\ [][ServerNext]_vars

\* The InteractiveCLI.
CLIAlone == Init /\ deployment = "cli"
SpecCLI == CLIAlone /\ [][CLINext]_vars

\* A Camera with a QRCodeProcessor on it, and subscribers that register.
ReentrantClient == Init /\ deployment = "reentrant"
ReentrantNext ==
    \/ Camera_start
    \/ QRCodeProcessor_start
    \/ \E callback \in Subscribers(deployment) : Camera_on_frame(callback)
    \/ \E callback \in Subscribers(deployment) : QRCodeProcessor_on_result(callback)
    \/ \E t \in CaptureThreads :
         \/ Capture_while(t)
         \/ Capture_wait_fails(t)
         \/ \E data \in SensorImages(deployment, clock + 1) : Capture_frame(t, data)
         \/ Capture_index_read(t)
         \/ Capture_index_write(t)
         \/ Capture_publish(t)
         \/ Capture_callbacks(t)
    \/ \E t \in ProcessingThreads :
         \/ Process_while(t)
         \/ Process_read(t)
         \/ Process_detected(t)
         \/ Process_emit(t)
SpecReentrant == ReentrantClient /\ [][ReentrantNext]_vars

\* A Camera with a QRCodeProcessor on it, and a second thread that registers
\* subscribers while the loops run.
RegistrarClient == Init /\ deployment = "registrar"
RegistrarNext ==
    \/ Camera_start
    \/ QRCodeProcessor_start
    \/ Camera_on_frame_called
    \/ \E callback \in Subscribers(deployment) : Camera_on_frame(callback)
    \/ QRCodeProcessor_on_result_called
    \/ \E callback \in Subscribers(deployment) : QRCodeProcessor_on_result(callback)
    \/ \E t \in CaptureThreads :
         \/ Capture_while(t)
         \/ Capture_wait_fails(t)
         \/ \E data \in SensorImages(deployment, clock + 1) : Capture_frame(t, data)
         \/ Capture_index_read(t)
         \/ Capture_index_write(t)
         \/ Capture_publish(t)
         \/ Capture_callbacks(t)
         \/ Capture_unlock(t)
    \/ \E t \in ProcessingThreads :
         \/ Process_while(t)
         \/ Process_read(t)
         \/ Process_detected(t)
         \/ Process_emit(t)
         \/ Process_unlock(t)
\* The threads are scheduled: a subscriber that was called returns and the
\* lock is released, and a thread that waits for a lock that is free again
\* and again gets it.
RegistrarFairness ==
    /\ \A t \in CaptureThreads : WF_vars(Capture_unlock(t))
    /\ \A t \in ProcessingThreads : WF_vars(Process_unlock(t))
    /\ SF_vars(\E callback \in Subscribers(deployment) : Camera_on_frame(callback))
    /\ SF_vars(\E callback \in Subscribers(deployment) : QRCodeProcessor_on_result(callback))
SpecRegistrar == RegistrarClient /\ [][RegistrarNext]_vars /\ RegistrarFairness

\* One step of a processing thread, whichever it is.
ProcessStep(t) ==
    \/ Process_while(t)
    \/ Process_read(t)
    \/ Process_detected(t)
    \/ Process_emit(t)

\* A Camera with a QRCodeProcessor on it whose processing threads are
\* scheduled: the sleep, the detector and the subscribers return, and a
\* thread that can take a step takes it.
ProcessorFairness == \A t \in ProcessingThreads : WF_vars(ProcessStep(t))
FairPipelineNext ==
    \/ CaptureNext
    \/ QRCodeProcessor_start
    \/ QRCodeProcessor_stop
    \/ QRCodeProcessor_stop_joined
    \/ (processor_callbacks = << >> /\ QRCodeProcessor_on_result("returns"))
    \/ \E t \in ProcessingThreads : ProcessStep(t)
SpecPipelineFair == CameraAndProcessor /\ [][FairPipelineNext]_vars /\ ProcessorFairness

Last(seq) == seq[Len(seq)]

\* --------------------------------------------------------------- the claims

\* C1: get_latest_frame() returns None if no frame has been stored in the
\* slot, and otherwise exactly the frame stored last: never an older one,
\* never a value mixing the fields of two frames; of a burst of publishes
\* between two reads only the newest is returned.
C1_LatestFrameIsNewest ==
    event.op = "Camera.get_latest_frame" =>
        event.value = IF event.after = 0 THEN None ELSE Some(published[event.after])

\* C1, its case: a read that follows two publishes returns the second frame.
C1_Witness ==
    /\ event.op = "Camera.get_latest_frame"
    /\ event.after = 2
    /\ event.value = Some(published[2])
    /\ published[1] # published[2]

\* C2: the frame_index values of the results delivered to a result
\* subscriber are strictly increasing, so no frame index is delivered twice.
C2_ResultIndicesIncrease ==
    \A k \in 1..MaxCallbacks : \A i \in 1..Len(result_log[k]) :
        \A j \in 1..Len(result_log[k]) :
            i < j => result_log[k][i].frame_index < result_log[k][j].frame_index

\* The messages of a connection that have been answered, by position.
Answered(c) == 1..Len(outbox[c])

\* The image a message carries: the image of a binary message that decodes,
\* or of a JSON object whose "image" is the base64 text of one; None otherwise.
CarriedImage(message) ==
    CASE message.type = "bytes" /\ message.raw.kind = "image" -> Some(message.raw.image)
      [] /\ message.type = "str"
         /\ message.text.syntax = "object"
         /\ message.text.image = "string"
         /\ message.text.b64.valid
         /\ message.text.b64.of.kind = "image" -> Some(message.text.b64.of.image)
      [] OTHER -> None

\* C6: a text message that is not JSON is answered {"error": "Invalid JSON"};
\* a text message that is JSON without an image (no such key, a value that is
\* not an object, a null image) is answered
\* {"error": "Missing 'image' field"}.
C6_TextErrors ==
    \A c \in Connections : \A i \in Answered(c) :
        LET message == received[c][i] IN
        message.type = "str" =>
            /\ message.text.syntax = "malformed" =>
                   outbox[c][i] = ErrorResponse("Invalid JSON")
            /\ (/\ message.text.syntax # "malformed"
                /\ \/ message.text.syntax # "object"
                   \/ message.text.image \in {"absent", "null"}) =>
                   outbox[c][i] = ErrorResponse("Missing 'image' field")

\* C6, the part the handler keeps: the same, for malformed texts and for JSON
\* objects only.
C6_TextErrorsOfObjects ==
    \A c \in Connections : \A i \in Answered(c) :
        LET message == received[c][i] IN
        message.type = "str" =>
            /\ message.text.syntax = "malformed" =>
                   outbox[c][i] = ErrorResponse("Invalid JSON")
            /\ (message.text.syntax = "object" /\ message.text.image \in {"absent", "null"}) =>
                   outbox[c][i] = ErrorResponse("Missing 'image' field")

\* Whether a response is the answer to a message, by its kind: a detection
\* response with the regions of the image the message carries, or an error
\* response with a text.
AnswerTo(message, response) ==
    LET image == CarriedImage(message) IN
    IF image # None /\ ~DetectorRaises(image[1])
    THEN /\ response.keys = {"detections", "count", "processing_time"}
         /\ Len(response.detections) = Len(QRDetector_detect(image[1]))
    ELSE /\ response.keys = {"error"}
         /\ response.error # ""

\* C7: on a connection every message handled has exactly one response, the
\* responses are in the order of the messages, and the handler loop is never
\* ended by a message, whatever the messages are.
C7_OneResponsePerMessage ==
    \A c \in Connections :
        /\ alive[c]
        /\ Len(outbox[c]) = handled[c]
        /\ \A i \in 1..handled[c] : AnswerTo(received[c][i], outbox[c][i])

\* C7, its case: a connection whose first message fails in the detector and
\* whose second message, a good image, is answered with its detections.
C7_Witness ==
    \E c \in Connections :
        /\ handled[c] = 2
        /\ received[c][1] = BytesMessage(ImageBytes("glare"))
        /\ outbox[c][1].keys = {"error"}
        /\ received[c][2] = BytesMessage(ImageBytes("two_qr"))
        /\ outbox[c][2].count = 2

\* The integer a float (in tenths) is converted to: the float with the
\* fraction cut off.
Truncated(x, n) ==
    IF x >= 0 THEN 10 * n <= x /\ x < 10 * n + 10
              ELSE 10 * n >= x /\ x > 10 * n - 10

\* What C8 says of the response to a binary message with an image.
DetectionsAsC8(image, response) ==
    LET regions == QRDetector_detect(image) IN
    /\ "error" \notin response.keys
    /\ response.count = Len(response.detections)
    /\ Len(response.detections) = Len(regions)
    /\ \A j \in 1..Len(regions) :
         LET d == response.detections[j] IN
         /\ d.bbox # None
         /\ Len(d.bbox[1]) = 4
         /\ \A n \in 1..4 : /\ d.bbox[1][n] \in Int
                            /\ Truncated(regions[j].bbox_xyxy[n], d.bbox[1][n])
         /\ d.confidence # None
         /\ d.confidence[1] = IF regions[j].confidence # None
                              THEN regions[j].confidence[1]
                              ELSE DefaultConfidence

NoMatch(frame) == ~DetectorRaises(frame.data) /\ QRDetector_detect(frame.data) = << >>

\* A processing thread leaves process_frame in this step, with this frame.
Detected(t) == process[t].pc = "detect" /\ process'[t].pc # "detect"

\* The frame was handed to the detector before and no thread is still in
\* that call: a call for it now is a second, later call.
DetectedBefore(frame) ==
    /\ \E n \in 1..Len(detect_log) : detect_log[n] = frame
    /\ \A t \in ProcessingThreads : ~(process[t].pc = "detect" /\ process[t].frame = frame)

\* A processing thread hands this frame to the detector in this step.
Detects(t, frame) ==
    /\ process[t].pc # "detect"
    /\ process'[t].pc = "detect"
    /\ process'[t].frame = frame

\* The frames a subscriber has results for.
ResultsFor(frame) ==
    {<<k, i>> \in (1..MaxCallbacks) \X (1..MaxFrames * MaxStarts) :
        /\ i <= Len(result_log[k])
        /\ result_log[k][i].frame_index = frame.index
        /\ result_log[k][i].frame_timestamp = frame.timestamp}

\* The step of a thread that finds no region in frame i delivers nothing and
\* stores i as the last processed index.
NoMatchStep ==
    \A t \in ProcessingThreads :
        (Detected(t) /\ NoMatch(process[t].frame)) =>
            /\ processor_last_processed_index' = process[t].frame.index
            /\ result_log' = result_log
            /\ process'[t].pc = "while"

\* C3: a frame i with zero detections gets no ProcessingResult and makes
\* _last_processed_index i; so a no-match frame followed by a match frame
\* gives one result event only, for the latter, and the no-match frame is
\* never handed to the detector again.
C3_NoMatchFrame ==
    [][ /\ NoMatchStep
        /\ \A t \in ProcessingThreads : \A n \in 1..Len(detect_log) :
             NoMatch(detect_log[n]) => ~Detects(t, detect_log[n])
        /\ \A n \in 1..Len(detect_log) :
             /\ NoMatch(detect_log[n]) => ResultsFor(detect_log[n])' = {}
             /\ \A k \in 1..MaxCallbacks :
                  Cardinality({r \in ResultsFor(detect_log[n])' : r[1] = k}) <= 1
      ]_vars

\* C3, the part the loop keeps whatever the threads: the no-match step.
C3_NoMatchStepOnly == [][NoMatchStep]_vars

\* The step of a thread whose detector call raises on frame i delivers
\* nothing, stores i as the last processed index and goes back to the head of
\* the loop.
DetectorRaisesStep ==
    \A t \in ProcessingThreads :
        (Detected(t) /\ DetectorRaises(process[t].frame.data)) =>
            /\ processor_last_processed_index' = process[t].frame.index
            /\ result_log' = result_log
            /\ process'[t].pc = "while"

\* C9: when the detector raises on frame i no ProcessingResult is delivered,
\* _last_processed_index becomes i, the frame is not tried again, and the
\* loop goes on, however many calls fail.
C9_DetectorFailure ==
    [][ /\ DetectorRaisesStep
        /\ \A t \in ProcessingThreads : \A n \in 1..Len(detect_log) :
             (DetectorRaises(detect_log[n].data) /\ DetectedBefore(detect_log[n])) =>
                 ~Detects(t, detect_log[n])
        /\ \A n \in 1..Len(detect_log) :
             DetectorRaises(detect_log[n].data) => ResultsFor(detect_log[n])' = {}
      ]_vars

\* C9, the part the loop keeps whatever the threads: the failing step.
C9_DetectorRaisesStepOnly == [][DetectorRaisesStep]_vars

\* A capture thread ends a delivery pass in this step.
FramePass(t) == capture[t].pc = "callbacks" /\ capture'[t] # capture[t]
\* A processing thread ends a delivery pass in this step.
ResultPass(t) == process[t].pc = "emit" /\ process'[t] # process[t]

\* C4: with a subscriber that raises at every invocation, a delivery pass
\* still invokes every registered subscriber with the frame or result, this
\* time and every later time, and the loop that delivers goes on.
C4_RaisingSubscriber ==
    [][ /\ \A t \in CaptureThreads :
             (FramePass(t) /\ \E r \in 1..Len(camera_callbacks) : camera_callbacks[r] = "raises") =>
                 /\ \A k \in 1..Len(camera_callbacks) :
                      frame_log'[k] = Append(frame_log[k], capture[t].frame)
                 /\ capture'[t].pc = "while"
        /\ \A t \in ProcessingThreads :
             (ResultPass(t) /\ \E r \in 1..Len(processor_callbacks) : processor_callbacks[r] = "raises") =>
                 /\ \A k \in 1..Len(processor_callbacks) :
                      /\ Len(result_log'[k]) = Len(result_log[k]) + 1
                      /\ Last(result_log'[k]).frame_index = process[t].frame.index
                      /\ Last(result_log'[k]).result = process[t].result
                 /\ process'[t].pc = "while"
      ]_vars

\* C4, its case for the Camera: the subscriber registered after a raising one
\* was invoked for two frames.
C4_Witness ==
    /\ camera_callbacks = <<"raises", "returns">>
    /\ Len(frame_log[1]) = 2
    /\ Len(frame_log[2]) = 2

\* C4, its case for the QRCodeProcessor: the subscriber registered after a
\* raising one was invoked for two results.
C4_WitnessOfProcessor ==
    /\ processor_callbacks = <<"raises", "returns">>
    /\ Len(result_log[1]) = 2
    /\ Len(result_log[2]) = 2

\* What a stop() of a Camera that is not running does, but for the
\* visualization flag.
CameraStopIsNoOp ==
    (event'.op = "Camera.stop" /\ event' # event /\ ~camera_running) =>
        /\ event' = Call("Camera.stop", FALSE, FALSE, FALSE)
        /\ caller_pc' = "idle"
        /\ UNCHANGED <<camera_running, camera_frame_index, camera_latest_frame,
                       camera_capture_thread, camera_callbacks, pipeline_started,
                       capture, clock, viewer_pc, published, frame_log>>

\* What a stop() of a QRCodeProcessor that is not running does.
ProcessorStopIsNoOp ==
    (event'.op = "QRCodeProcessor.stop" /\ event' # event /\ ~processor_running) =>
        /\ event' = Call("QRCodeProcessor.stop", FALSE, FALSE, FALSE)
        /\ caller_pc' = "idle"
        /\ UNCHANGED processor_vars

\* C5 as stated: stop() on a Camera or QRCodeProcessor that is Stopped does not
\* raise, joins no thread, does not stop the sensor and changes no state of
\* the component.
C5_StopOfStoppedChangesNothing ==
    [][ /\ CameraStopIsNoOp
        /\ (event'.op = "Camera.stop" /\ event' # event /\ ~camera_running) =>
               UNCHANGED camera_visualization_running
        /\ ProcessorStopIsNoOp
      ]_vars

\* C5, amended: stop() on a Camera or QRCodeProcessor that is Stopped does not
\* raise, joins no thread, does not stop the sensor and changes no state of
\* the component but one: a Camera's visualization flag is cleared.
C5_StopOfStopped ==
    [][ /\ CameraStopIsNoOp
        /\ (event'.op = "Camera.stop" /\ event' # event /\ ~camera_running) =>
               camera_visualization_running' = FALSE
        /\ ProcessorStopIsNoOp
      ]_vars

\* C5, its case: a Camera that was started and stopped has returned from a
\* second stop().
C5_Witness ==
    /\ event = Call("Camera.stop", FALSE, FALSE, FALSE)
    /\ camera_capture_thread > 0
    /\ ~camera_running
    /\ caller_pc = "idle"

\* C5, its case for the QRCodeProcessor.
C5_WitnessOfProcessor ==
    /\ event = Call("QRCodeProcessor.stop", FALSE, FALSE, FALSE)
    /\ processor_processing_thread > 0
    /\ ~processor_running
    /\ caller_pc = "idle"

\* The index that follows the one of the frame published last.
FollowingIndex == IF published = << >> THEN 0 ELSE Last(published).index + 1

\* A capture thread's wait fails in this step.
WaitFails(t) == capture[t].pc = "wait" /\ capture'[t].pc \notin {"wait", "index"}

\* The failed attempt of a capture thread changes nothing but the thread's
\* place, the head of the loop.
FailedWaitStep ==
    \A t \in CaptureThreads :
        WaitFails(t) =>
            /\ capture'[t].pc = "while"
            /\ UNCHANGED <<camera_latest_frame, frame_log, camera_frame_index, published>>

\* C10: a failed wait for the next frame never ends the capture loop: the
\* loop tries again, the slot keeps its frame, no subscriber is invoked, no
\* index is used up, and so the next frame captured gets the index that
\* follows the one of the frame published last.
C10_FailedWait ==
    [][ /\ FailedWaitStep
        /\ \A t \in CaptureThreads :
             (capture[t].pc = "wait" /\ capture[t].failed /\ capture'[t].pc = "index") =>
                 capture'[t].frame.index = FollowingIndex
      ]_vars

\* C10, the part the loop keeps whatever the threads: the failed attempt.
C10_FailedWaitStepOnly == [][FailedWaitStep]_vars

\* This step is a call of the operation, seen by its outcome.
CallOf(op) == event'.op = op /\ event' # event

\* C11: start() on a Running Camera or QRCodeProcessor changes nothing: the
\* sensor is not opened again and no thread is spawned. start() on a Stopped
\* Camera opens the sensor, sets Running and spawns the loop; if the sensor
\* raises, the Camera stays Stopped and no thread is spawned.
C11_Start ==
    [][ /\ (CallOf("Camera.start") /\ camera_running) =>
               /\ ~event'.raised
               /\ UNCHANGED <<camera_running, pipeline_started, camera_capture_thread, capture>>
        /\ (CallOf("Camera.start") /\ ~camera_running /\ event'.raised) =>
               UNCHANGED <<camera_running, camera_capture_thread, capture>>
        /\ (CallOf("Camera.start") /\ ~camera_running /\ ~event'.raised) =>
               /\ ~pipeline_started /\ pipeline_started'
               /\ camera_running'
               /\ camera_capture_thread' = camera_capture_thread + 1
               /\ capture' = [capture EXCEPT ![camera_capture_thread'].pc = "while"]
        /\ (CallOf("QRCodeProcessor.start") /\ processor_running) =>
               /\ ~event'.raised
               /\ UNCHANGED <<processor_running, processor_processing_thread, process>>
      ]_vars

\* C11, its case: a Camera that ran and was stopped, whose start() raised in
\* the sensor: it is Stopped, with the one thread it had.
C11_Witness ==
    /\ event = Call("Camera.start", TRUE, FALSE, FALSE)
    /\ ~camera_running
    /\ camera_capture_thread = 1
    /\ Len(published) > 0

\* C11, its case for a start() on a Running QRCodeProcessor: it has returned,
\* and there is the one thread, at work.
C11_WitnessOfProcessor ==
    /\ event = Call("QRCodeProcessor.start", FALSE, FALSE, FALSE)
    /\ processor_running
    /\ processor_processing_thread = 1
    /\ process[1].pc = "detect"

\* C12: when the CLI process exits, every Camera and every QRCodeProcessor
\* the CLI started has had stop() called and is Stopped, whatever the
\* commands were and wherever a signal, EOF or exception came; and the CLI
\* holds neither, so that cleanup() called again does nothing.
C12_ExitStopsEverything ==
    cli_pc = "exited" =>
        /\ \A i \in 1..MaxStarts :
             /\ cli_cameras[i].started => (~cli_cameras[i].running /\ cli_cameras[i].stopped)
             /\ cli_processors[i].started =>
                    (~cli_processors[i].running /\ cli_processors[i].stopped)
        /\ cli_camera = 0
        /\ cli_processor = 0

\* C13: a subscriber that registers a subscriber from inside its own
\* invocation returns from that call: the pass that invokes it comes to its
\* end, the thread is back at the head of its loop.
C13_RegistrationInsideACallback ==
    [][ /\ \A t \in CaptureThreads :
             FramePass(t) /\ blocks(camera_callbacks) => capture'[t].pc = "while"
        /\ \A t \in ProcessingThreads :
             ResultPass(t) /\ blocks(processor_callbacks) => process'[t].pc = "while" ]_vars

C15_PublishedIndices ==
    /\ \A i \in 1..Len(published) : published[i].index = i - 1
    /\ \A k \in 1..MaxCallbacks : \A i \in 1..Len(frame_log[k]) :
           \A j \in 1..Len(frame_log[k]) :
               i < j => frame_log[k][i].index < frame_log[k][j].index

\* C15, with one capture thread ever spawned.
C15_PublishedIndicesOfOneThread ==
    camera_capture_thread <= 1 => C15_PublishedIndices

\* C16: while a capture thread holds a frame f for its subscribers (from its
\* publication to the end of the pass), get_latest_frame() returns a frame
\* with index >= f.index.
C16_PublishedBeforeDelivered ==
    \A t \in CaptureThreads :
        capture[t].pc = "callbacks" =>
            /\ get_latest_frame # None
            /\ get_latest_frame[1].index >= capture[t].frame.index

\* C16 with one capture thread ever spawned.
C16_PublishedBeforeDeliveredOfOneThread ==
    camera_capture_thread <= 1 => C16_PublishedBeforeDelivered

\* C16, the pass: the frame a thread published is passed once to every
\* subscriber registered at that time and to no other.
C16_PassOnly ==
    [][ \A t \in CaptureThreads :
            FramePass(t) =>
                /\ capture[t].frame \in {published[i] : i \in 1..Len(published)}
                /\ \A k \in 1..MaxCallbacks :
                      frame_log'[k] = IF k <= Len(camera_callbacks)
                                      THEN Append(frame_log[k], capture[t].frame)
                                      ELSE frame_log[k] ]_vars

\* The detector is called in this step.
DetectorCalled == detect_log' # detect_log

\* C17: the detector is called at most once per frame index, never on a frame
\* whose index is <= _last_processed_index, and _last_processed_index never
\* decreases.
C17_OncePerFrameIndex ==
    [][ /\ DetectorCalled =>
               /\ Last(detect_log').index > processor_last_processed_index
               /\ \A i \in 1..Len(detect_log) : detect_log[i].index # Last(detect_log').index
        /\ processor_last_processed_index' >= processor_last_processed_index ]_vars

\* C17 with one processing thread ever spawned.
C17_OncePerFrameIndexOfOneThread ==
    [][ processor_processing_thread <= 1 =>
          /\ DetectorCalled =>
                 /\ Last(detect_log').index > processor_last_processed_index
                 /\ \A i \in 1..Len(detect_log) : detect_log[i].index # Last(detect_log').index
          /\ processor_last_processed_index' >= processor_last_processed_index ]_vars

\* C18: every ProcessingResult delivered to a result subscriber has a
\* non-empty detection list, and its frame_index and frame_timestamp are those
\* of a frame handed to the detector, whose detections are the ones of the
\* result, whatever the camera has published since.
C18_ResultOfItsFrame ==
    \A k \in 1..MaxCallbacks : \A i \in 1..Len(result_log[k]) :
        LET r == result_log[k][i] IN
        /\ Len(r.result) > 0
        /\ \E n \in 1..Len(detect_log) :
              /\ detect_log[n].index = r.frame_index
              /\ detect_log[n].timestamp = r.frame_timestamp
              /\ process_frame(detect_log[n]) = Some(r.result)

\* C18, its case: a result delivered for a frame that is no longer the one in
\* the slot.
C18_Witness ==
    \E k \in 1..MaxCallbacks :
        /\ result_log[k] # << >>
        /\ get_latest_frame # None
        /\ get_latest_frame[1].index # Last(result_log[k]).frame_index
        /\ Len(published) = 2
        /\ published[1].index = Last(result_log[k]).frame_index
        /\ published[1].data # published[2].data

\* The sensor is opened, or closed, in this step.
Opens == ~pipeline_started /\ pipeline_started'
Closes == pipeline_started /\ ~pipeline_started'

\* C19: stop() on a Running Camera sets the state to Stopped and leaves the
\* sensor open until the join has returned, then closes it; the sensor is
\* opened by start() only and closed by the end of stop() only, it is closed
\* only when open and opened only when closed.
C19_StopOrder ==
    [][ /\ (CallOf("Camera.stop") /\ camera_running) =>
               /\ ~camera_running'
               /\ pipeline_started /\ pipeline_started'
               /\ caller_pc' = "Camera.stop:join"
        /\ CallOf("Camera.stop:return") =>
               /\ caller_pc = "Camera.stop:join"
               /\ ~camera_running
               /\ event'.joined
               /\ Closes
               /\ ~event'.raised
        /\ Opens => (CallOf("Camera.start") /\ ~camera_running /\ camera_running')
        /\ Closes => CallOf("Camera.stop:return")
        /\ (CallOf("Camera.start") /\ ~camera_running /\ ~event'.raised) => Opens ]_vars

\* C19, its case: the second stop() of a Camera closes the sensor that the
\* second start() opened.
C19_Witness ==
    /\ event.op = "Camera.stop:return"
    /\ ~event.raised
    /\ camera_capture_thread = 2
    /\ ~pipeline_started

\* A delivery pass invokes the subscribers of the whole list, once each.
WholeListPass ==
    /\ \A t \in CaptureThreads :
         FramePass(t) =>
             \A k \in 1..MaxCallbacks :
                 frame_log'[k] = IF k <= Len(camera_callbacks)
                                 THEN Append(frame_log[k], capture[t].frame)
                                 ELSE frame_log[k]
    /\ \A t \in ProcessingThreads :
         ResultPass(t) =>
             \A k \in 1..MaxCallbacks :
                 result_log'[k] = IF k <= Len(processor_callbacks)
                                  THEN Append(result_log[k],
                                              ProcessingResult(process[t].result, process[t].frame))
                                  ELSE result_log[k]

\* A registration adds one subscriber at the end of the list, outside any
\* delivery pass, and nothing else changes the list.
RegistrationStep ==
    /\ camera_callbacks' # camera_callbacks =>
           /\ ~CameraLockHeld
           /\ \E callback \in Subscribers(deployment) :
                 camera_callbacks' = Append(camera_callbacks, callback)
           /\ CallOf("Camera.on_frame")
    /\ processor_callbacks' # processor_callbacks =>
           /\ ~ProcessorLockHeld
           /\ \E callback \in Subscribers(deployment) :
                 processor_callbacks' = Append(processor_callbacks, callback)
           /\ CallOf("QRCodeProcessor.on_result")

C20_WitnessOfProcessor ==
    /\ caller_pc = "QRCodeProcessor.on_result:acquire"
    /\ ProcessorLockHeld

Waiting(t) == capture[t].pc = "wait"

\* C22: no call that opens or closes the sensor is made while a capture
\* thread is inside its wait for the next frame.
C22_SensorOfOneThread ==
    [][ (Opens \/ Closes) => \A t \in CaptureThreads : ~Waiting(t) ]_vars

\* The texts the decoder returns for the crop of a region: the region's box
\* in whole pixels, widened by the padding and cut to the image.
CropTexts(image, region) ==
    pyzbar_decode(image,
                  Max(0, int(region.bbox_xyxy[2]) - pad),
                  Min(ImageHeight, int(region.bbox_xyxy[4]) + pad),
                  Max(0, int(region.bbox_xyxy[1]) - pad),
                  Min(ImageWidth, int(region.bbox_xyxy[3]) + pad))

\* C23: the response to an image has exactly one detection per region of the
\* detector, in its order, whether or not the decoder reads the crop;
\* `decoded` is the first text the decoder returns for the crop, and null when
\* it returns none; the response is never an error for that.
C23_DecodeIsBestEffort ==
    \A c \in Connections : \A i \in Answered(c) :
        LET image == CarriedImage(received[c][i]) IN
        (image # None /\ ~DetectorRaises(image[1])) =>
            LET regions == QRDetector_detect(image[1])
                response == outbox[c][i]
            IN  /\ "error" \notin response.keys
                /\ response.count = Len(regions)
                /\ Len(response.detections) = Len(regions)
                /\ \A j \in 1..Len(regions) :
                      LET texts == CropTexts(image[1], regions[j]) IN
                      /\ response.detections[j].bbox[1][1] = int(regions[j].bbox_xyxy[1])
                      /\ response.detections[j].decoded =
                             IF texts = << >> THEN None ELSE Some(texts[1].text)

\* C23, its case: an image with two regions, the first read by the decoder
\* and the second not, is answered with two detections.
C23_Witness ==
    \E c \in Connections : \E i \in Answered(c) :
        /\ CarriedImage(received[c][i]) = Some("two_qr")
        /\ outbox[c][i].count = 2
        /\ outbox[c][i].detections[1].decoded = Some("beta")
        /\ outbox[c][i].detections[2].decoded = None

\* The loop threads that are inside an iteration of their loop.
CaptureIterating == {t \in CaptureThreads : capture[t].pc \notin {"unborn", "while", "ended"}}
ProcessIterating == {t \in ProcessingThreads : process[t].pc \notin {"unborn", "while", "ended"}}

\* C24: at most one capture thread of the Camera and at most one processing
\* thread of the QRCodeProcessor is inside a loop iteration at any time.
C24_OneLoopThread ==
    /\ Cardinality(CaptureIterating) <= 1
    /\ Cardinality(ProcessIterating) <= 1

\* C24 for the Camera alone, and for the QRCodeProcessor alone.
C24_OneCaptureThread == Cardinality(CaptureIterating) <= 1
C24_OneProcessingThread == Cardinality(ProcessIterating) <= 1

\* stop() of the Camera has just returned and the thread it joined has ended:
\* the join completed within the timeout.
CameraStopJoinedInTime ==
    /\ event.op = "Camera.stop:return"
    /\ camera_capture_thread > 0
    /\ capture[camera_capture_thread].pc = "ended"

\* The same for the QRCodeProcessor.
ProcessorStopJoinedInTime ==
    /\ event.op = "QRCodeProcessor.stop:return"
    /\ processor_processing_thread > 0
    /\ process[processor_processing_thread].pc = "ended"

\* C25: when stop() has returned and its join completed within the timeout,
\* the component publishes no frame, calls no subscriber and invokes no
\* detection in the step that follows, unless that step is a start().
C25_QuietAfterStop ==
    [][ /\ (CameraStopJoinedInTime /\ ~CallOf("Camera.start")) =>
               UNCHANGED <<published, camera_latest_frame, frame_log>>
        /\ (ProcessorStopJoinedInTime /\ ~CallOf("QRCodeProcessor.start")) =>
               UNCHANGED <<detect_log, result_log>> ]_vars

\* C25 with one loop thread ever spawned per component: once the thread has
\* ended and the component is Stopped, nothing is published, detected or
\* delivered.
C25_QuietAfterStopOfOneThread ==
    [][ /\ (camera_capture_thread = 1 /\ ~camera_running /\ capture[1].pc = "ended"
             /\ ~CallOf("Camera.start")) =>
               UNCHANGED <<published, camera_latest_frame, frame_log>>
        /\ (processor_processing_thread = 1 /\ ~processor_running /\ process[1].pc = "ended"
             /\ ~CallOf("QRCodeProcessor.start")) =>
               UNCHANGED <<detect_log, result_log>> ]_vars

\* The slot holds a frame with index i, which is above _last_processed_index,
\* and the QRCodeProcessor is Running.
FreshFrame(i) ==
    /\ processor_running
    /\ get_latest_frame # None
    /\ get_latest_frame[1].index = i
    /\ processor_last_processed_index < i

\* C26: while the QRCodeProcessor stays Running, a frame with index i in the
\* slot above _last_processed_index leads to _last_processed_index >= i.
C26_FreshFrameIsProcessed ==
    \A i \in 0..(MaxFrames - 1) :
        FreshFrame(i) ~> (processor_last_processed_index >= i \/ ~processor_running)

\* C26, its case: the frame with index 1 was processed and the one with index
\* 0, published before it, was never handed to the detector.
C26_Witness ==
    /\ processor_running
    /\ processor_last_processed_index = 1
    /\ Len(published) = 2
    /\ \A n \in 1..Len(detect_log) : detect_log[n].index # 0

\* C25, the exit of the processing loop: a processing thread that is alive
\* while the QRCodeProcessor is Stopped ends, unless a start() follows.
C25_ProcessingLoopExits ==
    \A t \in ProcessingThreads :
        (~processor_running /\ process[t].pc \notin {"unborn", "ended"})
            ~> (process[t].pc = "ended" \/ processor_running)

====
